---- MODULE Spec2Model ----
(***************************************************************************)
(* A model of redis-backed: typed List / Set handles over a remote redis   *)
(* store, the connection lock every operation takes, and the Watcher       *)
(* bridge (background producer, unbounded channel, poll-based consumer).   *)
(*                                                                         *)
(* The element type T is instantiated as Option<u8>: NoneT is the value    *)
(* None, a natural n is Some(n).  serde_cbor encodes Some(n) (n < 24) as   *)
(* the one byte n and None as the CBOR null byte 0xf6 = 246.               *)
(***************************************************************************)
EXTENDS Integers, Sequences, FiniteSets, TLC

\* ------------------------------------------------------------------ bounds
MaxElem == 2
MaxLen == 3
MaxHist == 4
MaxHandles == 2
MaxTasks == 2
MaxWatch == 2
MaxNotes == 2
MaxStreams == 1
MaxActive == 2
MaxSetOps == 3
MaxCount == 2

\* --------------------------------------------------------------- constants
CborNull == 246
Limb == 65536

VARIABLES
    store,      \* the remote store: key -> stored value
    pre,        \* the store before the last sequential operation
    last,       \* the last sequential operation and its result
    hist,       \* the sequential operations completed so far (SpecHist)
    db,         \* the Database: "unbuilt", "ready" (holds a Client), "invalid"
    conns,      \* connections opened so far by Client::get_connection
    handles,    \* the collection handles get() returned
    lock,       \* per connection: who holds its RwLock
    poisoned,   \* connections whose RwLock a panicking holder poisoned
    tasks,      \* the deferred computations the methods returned
    watchers,   \* the Watchers: producer, channel, wake handle, consumer
    published   \* notifications the store has published so far

vars == <<store, pre, last, hist, db, conns, handles, lock, poisoned, tasks,
          watchers, published>>
seqVars == <<store, pre, last, hist>>
sysVars == <<db, conns, handles, lock, poisoned, tasks, watchers, published>>

\* ------------------------------------------------------------------ values
NoneT == -1
Elems == {NoneT} \cup (1..MaxElem)
Names == {"people"}
Indexes == (0 - MaxLen - 1)..(MaxLen + 1)
Counts == (0 - MaxCount)..MaxCount
\* the positions at either end of a list, for the calls that rewrite it
NearIndexes == (0 - 1)..1

\* a u32, as its two 16-bit limbs
U32(hi, lo) == [hi |-> hi, lo |-> lo]
\* n as u32, for -Limb < n < Limb: a negative n wraps to 2^32 + n
as_u32(n) == IF n >= 0 THEN U32(0, n) ELSE U32(Limb - 1, Limb + n)

\* redis::Value, the reply of one command
Nil == [t |-> "Nil", int |-> 0, data |-> <<>>]
Int_(n) == [t |-> "Int", int |-> n, data |-> <<>>]
Data(b) == [t |-> "Data", int |-> 0, data |-> b]
Okay == [t |-> "Okay", int |-> 0, data |-> <<>>]
ErrReply == [t |-> "Err", int |-> 0, data |-> <<>>]
Bulk(items) == [t |-> "Bulk", int |-> 0, data |-> items]

\* Result<_, Error> of one operation
OkUnit == [ok |-> TRUE, tag |-> "unit", val |-> 0, n |-> 0]
OkNone == [ok |-> TRUE, tag |-> "none", val |-> 0, n |-> 0]
OkSome(v) == [ok |-> TRUE, tag |-> "some", val |-> v, n |-> 0]
OkVal(v) == [ok |-> TRUE, tag |-> "val", val |-> v, n |-> 0]
OkInt(n) == [ok |-> TRUE, tag |-> "int", val |-> 0, n |-> n]
OkVec(v) == [ok |-> TRUE, tag |-> "vec", vec |-> v]
OkBool(b) == [ok |-> TRUE, tag |-> "bool", val |-> 0, n |-> IF b THEN 1 ELSE 0]
ErrRedis == [ok |-> FALSE, tag |-> "RedisError", val |-> 0, n |-> 0]
ErrSerde == [ok |-> FALSE, tag |-> "SerializationError", val |-> 0, n |-> 0]

\* ------------------------------------------------------------------- codec
\* serde_cbor::to_vec(&item) for item : T
to_vec(v) == IF v = NoneT THEN <<CborNull>> ELSE <<v>>

\* serde_cbor::from_slice::<T>(data): an empty or foreign slice is an error
from_slice_T(data) ==
    IF Len(data) # 1 THEN ErrSerde
    ELSE IF data[1] = CborNull THEN OkVal(NoneT)
    ELSE IF data[1] < 24 THEN OkVal(data[1])
    ELSE ErrSerde

\* serde_cbor::from_slice::<Option<T>>(data): deserialize_option answers None
\* on a leading CBOR null and hands every other input to T's deserializer
from_slice_OptionT(data) ==
    IF Len(data) = 0 THEN ErrSerde
    ELSE IF data[1] = CborNull THEN OkNone
    ELSE LET r == from_slice_T(data) IN
         IF r.ok THEN OkSome(r.val) ELSE r

\* ------------------------------------------------------- the remote store
\* One key of the store.  A redis list exists exactly while it is non-empty.
NoKey == [type |-> "none", list |-> <<>>, set |-> {}]
ListVal(l) == IF l = <<>> THEN NoKey ELSE [type |-> "list", list |-> l, set |-> {}]

RPUSH(s, data) == [s |-> ListVal(Append(s.list, data)), reply |-> Int_(Len(s.list) + 1)]
LPUSH(s, data) == [s |-> ListVal(<<data>> \o s.list), reply |-> Int_(Len(s.list) + 1)]
RPOP(s) ==
    IF s.list = <<>> THEN [s |-> s, reply |-> Nil]
    ELSE [s |-> ListVal(SubSeq(s.list, 1, Len(s.list) - 1)),
          reply |-> Data(s.list[Len(s.list)])]
LPOP(s) ==
    IF s.list = <<>> THEN [s |-> s, reply |-> Nil]
    ELSE [s |-> ListVal(Tail(s.list)), reply |-> Data(Head(s.list))]
LINDEX(s, i) ==
    LET p == IF i >= 0 THEN i + 1 ELSE Len(s.list) + i + 1 IN
    [s |-> s, reply |-> IF p >= 1 /\ p <= Len(s.list) THEN Data(s.list[p]) ELSE Nil]
LLEN(s) == [s |-> s, reply |-> Int_(Len(s.list))]

\* the position of the first occurrence of data in l, 0 if there is none
FirstIndex(l, data) ==
    IF \E i \in 1..Len(l) : l[i] = data
    THEN CHOOSE i \in 1..Len(l) : l[i] = data /\ \A j \in 1..(i - 1) : l[j] # data
    ELSE 0
\* l with data put in so that it stands at position p
InsertAt(l, p, data) == SubSeq(l, 1, p - 1) \o <<data>> \o SubSeq(l, p, Len(l))
\* LINSERT key BEFORE|AFTER pivot value: the new length, -1 when the pivot
\* is not in the list, 0 when the key does not exist
LINSERT(s, where, pivot, data) ==
    LET i == FirstIndex(s.list, pivot) IN
    IF s.list = <<>> THEN [s |-> s, reply |-> Int_(0)]
    ELSE IF i = 0 THEN [s |-> s, reply |-> Int_(-1)]
    ELSE [s |-> ListVal(InsertAt(s.list, IF where = "BEFORE" THEN i ELSE i + 1, data)),
          reply |-> Int_(Len(s.list) + 1)]
\* LRANGE key start stop: the elements from start to stop, both counted from
\* the end when negative, stop included, cut to the list
LRANGE(s, start, stop) ==
    LET n == Len(s.list)
        a == IF start < 0 THEN (IF n + start < 0 THEN 0 ELSE n + start) ELSE start
        b == IF stop < 0 THEN n + stop ELSE (IF stop >= n THEN n - 1 ELSE stop)
    IN  [s |-> s, reply |-> Bulk(IF a > b \/ a >= n THEN <<>> ELSE SubSeq(s.list, a + 1, b + 1))]

\* LSET key index value: an error when the key does not exist or the index
\* is outside the list
LSET(s, i, data) ==
    LET p == IF i >= 0 THEN i + 1 ELSE Len(s.list) + i + 1 IN
    IF p >= 1 /\ p <= Len(s.list)
    THEN [s |-> ListVal([s.list EXCEPT ![p] = data]), reply |-> Okay]
    ELSE [s |-> s, reply |-> ErrReply]
\* LTRIM key start stop: the list keeps what LRANGE start stop lists
LTRIM(s, start, stop) == [s |-> ListVal(LRANGE(s, start, stop).reply.data), reply |-> Okay]

\* l without its first c elements equal to data
RECURSIVE RemoveHead(_, _, _)
RemoveHead(l, data, c) ==
    IF l = <<>> \/ c = 0 THEN l
    ELSE IF Head(l) = data THEN RemoveHead(Tail(l), data, c - 1)
    ELSE <<Head(l)>> \o RemoveHead(Tail(l), data, c)
Reverse(l) == [i \in 1..Len(l) |-> l[Len(l) + 1 - i]]
\* LREM key count value: count > 0 removes the first count elements equal to
\* value from the head on, count < 0 the first -count from the tail on,
\* count = 0 all of them; the reply is the number removed
LREM(s, count, data) ==
    LET occ == Cardinality({i \in 1..Len(s.list) : s.list[i] = data})
        c == IF count = 0 THEN occ ELSE count
        l == IF c >= 0 THEN RemoveHead(s.list, data, c)
             ELSE Reverse(RemoveHead(Reverse(s.list), data, 0 - c))
    IN  [s |-> ListVal(l), reply |-> Int_(Len(s.list) - Len(l))]
\* .arg(count) for count : u32, as LREM reads it on a list of n elements:
\* never negative, and any count above n removes what n + 1 removes
arg_u32(count, n) == IF count.hi > 0 \/ count.lo > n THEN n + 1 ELSE count.lo

\* A redis set exists exactly while it has a member.
SetVal(m) == IF m = {} THEN NoKey ELSE [type |-> "set", list |-> <<>>, set |-> m]
SADD(s, data) ==
    [s |-> SetVal(s.set \cup {data}), reply |-> Int_(IF data \in s.set THEN 0 ELSE 1)]
SCARD(s) == [s |-> s, reply |-> Int_(Cardinality(s.set))]
SREM(s, data) ==
    [s |-> SetVal(s.set \ {data}), reply |-> Int_(IF data \in s.set THEN 1 ELSE 0)]
SISMEMBER(s, data) == [s |-> s, reply |-> Int_(IF data \in s.set THEN 1 ELSE 0)]
\* the orders in which the store may list the members m
Orders(m) ==
    {o \in [1..Cardinality(m) -> m] : \A i, j \in 1..Cardinality(m) : i # j => o[i] # o[j]}
\* SMEMBERS: every member once, in the order the store lists them
SMEMBERS(s, order) == [s |-> s, reply |-> Bulk(order)]
DEL(s) == [s |-> NoKey, reply |-> Int_(IF s.type = "none" THEN 0 ELSE 1)]

\* ------------------------------------------- reply conversions (query::<R>)
\* R = (): every reply converts
query_unit(reply) == OkUnit
\* R = String: only a bulk string or a status reply converts
query_String(reply) == IF reply.t \in {"Data", "Okay"} THEN OkUnit ELSE ErrRedis
\* R = u32
query_u32(reply) == IF reply.t = "Int" THEN OkInt(reply.int) ELSE ErrRedis
\* R = i64
query_i64(reply) == IF reply.t = "Int" THEN OkInt(reply.int) ELSE ErrRedis
\* R = Vec<u8>: a nil reply converts to the empty vector
query_bytes(reply) ==
    IF reply.t = "Data" THEN [ok |-> TRUE, data |-> reply.data]
    ELSE IF reply.t = "Nil" THEN [ok |-> TRUE, data |-> <<>>]
    ELSE [ok |-> FALSE, data |-> <<>>]

\* .map(|data| serde_cbor::from_slice(..)).collect::<Result<Vec<T>, Error>>()
RECURSIVE collect(_)
collect(items) ==
    IF items = <<>> THEN OkVec(<<>>)
    ELSE LET r == from_slice_T(Head(items)) IN
         IF ~r.ok THEN r
         ELSE LET rest == collect(Tail(items)) IN
              IF rest.ok THEN OkVec(<<r.val>> \o rest.vec) ELSE rest

\* ------------------------------------------------------ Collection / Key
\* List's key as if it were formed with the prefix of Set
ListKey_shared(name) == "_orm_set:" \o name

ListKey(name) == "_orm_list:" \o name
SetKey(name) == "_orm_set:" \o name
Keys == {ListKey(n) : n \in Names} \cup {SetKey(n) : n \in Names}
ListKeys == {ListKey(n) : n \in Names}

\* Each *_call is the closure a method hands to lazy(): the command, the
\* conversion of its reply and the decoding.  s is the key's stored value.
push_front_call(s, item) ==
    LET c == RPUSH(s, to_vec(item)) IN [s |-> c.s, res |-> query_unit(c.reply)]

push_back_call(s, item) ==
    LET c == LPUSH(s, to_vec(item)) IN [s |-> c.s, res |-> query_unit(c.reply)]

pop_front_call(s) ==
    LET c == RPOP(s) IN
    [s |-> c.s,
     res |-> IF c.reply.t = "Nil" THEN OkNone
             ELSE LET d == query_bytes(c.reply) IN
                  IF d.ok THEN from_slice_OptionT(d.data) ELSE ErrRedis]

pop_back_call(s) ==
    LET c == LPOP(s) IN
    [s |-> c.s,
     res |-> IF c.reply.t = "Nil" THEN OkNone
             ELSE LET d == query_bytes(c.reply) IN
                  IF d.ok THEN from_slice_OptionT(d.data) ELSE ErrRedis]

\* index as it would be if an index past the end named the last element
index_call_clamped(s, i) ==
    LET c == LINDEX(s, IF i >= Len(s.list) THEN -1 ELSE i)
        d == query_bytes(c.reply) IN
    [s |-> c.s, res |-> IF d.ok THEN from_slice_T(d.data) ELSE ErrRedis]

index_call(s, i) ==
    LET c == LINDEX(s, i)
        d == query_bytes(c.reply) IN
    [s |-> c.s, res |-> IF d.ok THEN from_slice_T(d.data) ELSE ErrRedis]

set_index_call(s, i, value) ==
    LET c == LSET(s, i, to_vec(value)) IN [s |-> c.s, res |-> query_String(c.reply)]

trim_call(s, start, stop) ==
    LET c == LTRIM(s, start, stop) IN [s |-> c.s, res |-> query_String(c.reply)]

\* range as if stop were left out
range_call_exclusive(s, start, stop) ==
    LET c == LRANGE(s, start, stop - 1) IN
    [s |-> c.s, res |-> IF c.reply.t = "Bulk" THEN collect(c.reply.data) ELSE ErrRedis]

range_call(s, start, stop) ==
    LET c == LRANGE(s, start, stop) IN
    [s |-> c.s, res |-> IF c.reply.t = "Bulk" THEN collect(c.reply.data) ELSE ErrRedis]

len_call(s) ==
    LET c == LLEN(s) IN [s |-> c.s, res |-> query_u32(c.reply)]

List_remove_call(s, count, item) ==
    LET c == LREM(s, arg_u32(count, Len(s.list)), to_vec(item)) IN
    [s |-> c.s, res |-> query_u32(c.reply)]

insert_before_call(s, pivot, value) ==
    LET c == LINSERT(s, "BEFORE", to_vec(pivot), to_vec(value))
        data == query_i64(c.reply) IN
    [s |-> c.s, res |-> IF data.ok THEN OkBool(data.n # -1) ELSE data]

insert_after_call(s, pivot, value) ==
    LET c == LINSERT(s, "AFTER", to_vec(pivot), to_vec(value))
        data == query_i64(c.reply) IN
    [s |-> c.s, res |-> IF data.ok THEN OkBool(data.n # -1) ELSE data]

\* Set::add as if every integer reply meant a new member
add_call_always(s, item) ==
    LET c == SADD(s, to_vec(item))
        ret == query_u32(c.reply) IN
    [s |-> c.s, res |-> IF ret.ok THEN OkBool(ret.n >= 0) ELSE ret]

add_call(s, item) ==
    LET c == SADD(s, to_vec(item))
        ret == query_u32(c.reply) IN
    [s |-> c.s, res |-> IF ret.ok THEN OkBool(ret.n = 1) ELSE ret]

count_call(s) ==
    LET c == SCARD(s) IN [s |-> c.s, res |-> query_u32(c.reply)]

\* Set::remove as if it only asked whether the item is a member
Set_remove_call_probing(s, item) ==
    LET c == SISMEMBER(s, to_vec(item))
        ret == query_u32(c.reply) IN
    [s |-> c.s, res |-> IF ret.ok THEN OkBool(ret.n = 1) ELSE ret]

Set_remove_call(s, item) ==
    LET c == SREM(s, to_vec(item))
        ret == query_u32(c.reply) IN
    [s |-> c.s, res |-> IF ret.ok THEN OkBool(ret.n = 1) ELSE ret]

contains_call(s, item) ==
    LET c == SISMEMBER(s, to_vec(item))
        ret == query_u32(c.reply) IN
    [s |-> c.s, res |-> IF ret.ok THEN OkBool(ret.n = 1) ELSE ret]

Set_to_vec_call(s, order) ==
    LET c == SMEMBERS(s, order) IN
    [s |-> c.s, res |-> IF c.reply.t = "Bulk" THEN collect(c.reply.data) ELSE ErrRedis]

Key_remove_call(s) ==
    LET c == DEL(s) IN [s |-> c.s, res |-> query_String(c.reply)]

\* the holder of a connection's RwLock
Free == [who |-> "free", id |-> 0]
ByTask(t) == [who |-> "task", id |-> t]
ByProducer(w) == [who |-> "prod", id |-> w]

\* ------------------------------------------ sequential use of one handle
\* last is the operation just completed, pre the store it ran against.
NoOp == [op |-> "none", key |-> "", arg |-> 0, res |-> OkUnit]

Apply(op, k, arg, c) ==
    /\ store' = [store EXCEPT ![k] = c.s]
    /\ pre' = store
    /\ last' = [op |-> op, key |-> k, arg |-> arg, res |-> c.res]
    /\ UNCHANGED sysVars

push_front(k, v) ==
    /\ Len(store[k].list) < MaxLen
    /\ Apply("push_front", k, v, push_front_call(store[k], v))

push_back(k, v) ==
    /\ Len(store[k].list) < MaxLen
    /\ Apply("push_back", k, v, push_back_call(store[k], v))

pop_front(k) == Apply("pop_front", k, 0, pop_front_call(store[k]))

pop_back(k) == Apply("pop_back", k, 0, pop_back_call(store[k]))

index(k, i) == Apply("index", k, i, index_call(store[k], i))

set_index(k, i, value) ==
    Apply("set_index", k, <<i, value>>, set_index_call(store[k], i, value))

trim(k, start, stop) ==
    Apply("trim", k, <<start, stop>>, trim_call(store[k], start, stop))

range(k, start, stop) ==
    Apply("range", k, <<start, stop>>, range_call(store[k], start, stop))

len(k) == Apply("len", k, 0, len_call(store[k]))

\* remove(n as u32, item): count is a u32, whatever count the caller means
List_remove(k, n, item) ==
    Apply("List_remove", k, <<n, item>>, List_remove_call(store[k], as_u32(n), item))

insert_before(k, pivot, value) ==
    /\ Len(store[k].list) < MaxLen
    /\ Apply("insert_before", k, <<pivot, value>>, insert_before_call(store[k], pivot, value))

insert_after(k, pivot, value) ==
    /\ Len(store[k].list) < MaxLen
    /\ Apply("insert_after", k, <<pivot, value>>, insert_after_call(store[k], pivot, value))

add(k, item) == Apply("add", k, item, add_call(store[k], item))

count(k) == Apply("count", k, 0, count_call(store[k]))

Set_remove(k, item) == Apply("Set_remove", k, item, Set_remove_call(store[k], item))

contains(k, item) == Apply("contains", k, item, contains_call(store[k], item))

Set_to_vec(k, order) ==
    /\ order \in Orders(store[k].set)
    /\ Apply("Set_to_vec", k, 0, Set_to_vec_call(store[k], order))

Key_remove(k) == Apply("Key_remove", k, 0, Key_remove_call(store[k]))

Init ==
    /\ store = [k \in Keys |-> NoKey]
    /\ pre = store
    /\ last = NoOp
    /\ hist = <<>>
    /\ db = "unbuilt"
    /\ conns = 0
    /\ handles = <<>>
    /\ lock = [c \in 1..MaxHandles |-> Free]
    /\ poisoned = {}
    /\ tasks = <<>>
    /\ watchers = <<>>
    /\ published = 0

Next ==
    \/ \E k \in ListKeys, v \in Elems : push_front(k, v) /\ UNCHANGED hist
    \/ \E k \in ListKeys, v \in Elems : push_back(k, v) /\ UNCHANGED hist
    \/ \E k \in ListKeys : pop_front(k) /\ UNCHANGED hist
    \/ \E k \in ListKeys : pop_back(k) /\ UNCHANGED hist
    \/ \E k \in ListKeys, i \in Indexes : index(k, i) /\ UNCHANGED hist
    \/ \E k \in ListKeys : len(k) /\ UNCHANGED hist
    \/ \E k \in ListKeys, i \in NearIndexes, v \in Elems : set_index(k, i, v) /\ UNCHANGED hist
    \/ \E k \in ListKeys, i, j \in NearIndexes : trim(k, i, j) /\ UNCHANGED hist
    \/ \E k \in ListKeys, n \in Counts, v \in Elems : List_remove(k, n, v) /\ UNCHANGED hist
    \/ \E k \in ListKeys, p, v \in Elems : insert_before(k, p, v) /\ UNCHANGED hist
    \/ \E k \in ListKeys, p, v \in Elems : insert_after(k, p, v) /\ UNCHANGED hist
    \/ \E k \in Keys : Key_remove(k) /\ UNCHANGED hist

Spec == Init /\ [][Next]_vars

\* The same operations with every completed call recorded, from the empty
\* store, for claims about whole call sequences.
Record == Len(hist) < MaxHist /\ hist' = Append(hist, last')

NextHist ==
    \/ \E k \in ListKeys, v \in Elems : push_front(k, v) /\ Record
    \/ \E k \in ListKeys, v \in Elems : push_back(k, v) /\ Record
    \/ \E k \in ListKeys : pop_front(k) /\ Record
    \/ \E k \in ListKeys : pop_back(k) /\ Record
    \/ \E k \in ListKeys : len(k) /\ Record

SpecHist == Init /\ [][NextHist]_vars

\* The ranges of the lists that pushes, overwrites and trims build.
NextRange ==
    \/ \E k \in ListKeys, v \in Elems : push_front(k, v) /\ UNCHANGED hist
    \/ \E k \in ListKeys, v \in Elems : push_back(k, v) /\ UNCHANGED hist
    \/ \E k \in ListKeys, i, j \in Indexes : range(k, i, j) /\ UNCHANGED hist
    \/ \E k \in ListKeys, i \in NearIndexes, v \in Elems : set_index(k, i, v) /\ UNCHANGED hist
    \/ \E k \in ListKeys, i, j \in NearIndexes : trim(k, i, j) /\ UNCHANGED hist

SpecRange == Init /\ [][NextRange]_vars

\* The operations of one Set handle, its add and remove calls recorded.
SetKeys == {SetKey(n) : n \in Names}
RecordSet == Len(hist) < MaxSetOps /\ hist' = Append(hist, last')

NextSet ==
    \/ \E k \in SetKeys, v \in Elems : add(k, v) /\ RecordSet
    \/ \E k \in SetKeys, v \in Elems : Set_remove(k, v) /\ RecordSet
    \/ \E k \in SetKeys : count(k) /\ UNCHANGED hist
    \/ \E k \in SetKeys, v \in Elems : contains(k, v) /\ UNCHANGED hist
    \/ \E k \in SetKeys : \E o \in Orders(store[k].set) : Set_to_vec(k, o) /\ UNCHANGED hist

SpecSet == Init /\ [][NextSet]_vars

\* ------------------------------------------------- Database and handles
\* the addresses: one a store listens on, one nothing listens on, one that
\* is no redis address
Addrs ==
    {[scheme |-> "redis", host |-> "127.0.0.1"],
     [scheme |-> "redis", host |-> "192.0.2.1"],
     [scheme |-> "", host |-> "127.0.0.1"]}
Reachable(addr) == addr.host = "127.0.0.1"

\* Client::open(addr) as if it connected to the store
Client_open_connecting(addr) == addr.scheme = "redis" /\ addr.host # "" /\ Reachable(addr)

\* Client::open(addr): the address is parsed, nothing is connected
Client_open(addr) == addr.scheme = "redis" /\ addr.host # ""

\* Database::new, polled: db is "ready" when it holds a Client of a store
\* that listens, "offline" when it holds a Client of one that does not
new(addr) ==
    /\ db = "unbuilt"
    /\ db' = IF Client_open(addr)
             THEN (IF Reachable(addr) THEN "ready" ELSE "offline")
             ELSE "invalid"
    /\ UNCHANGED <<conns, handles, lock, poisoned, tasks, watchers, published>>
    /\ UNCHANGED seqVars

\* Client::get_connection(): one more connection to the store, as if every
\* call answered the first connection
get_connection_shared(n) == 1

\* Client::get_connection(): one more connection to the store
get_connection(n) == n + 1

List_get(name, conn) == [kind |-> "List", key |-> ListKey(name), conn |-> conn, alive |-> TRUE]
Set_get(name, conn) == [kind |-> "Set", key |-> SetKey(name), conn |-> conn, alive |-> TRUE]

\* Database::get, polled: get_connection()? and T::get; with no store
\* listening get_connection() fails and get returns the error
get(kind, name) ==
    /\ db \in {"ready", "offline"}
    /\ Len(handles) < MaxHandles
    /\ IF db = "offline"
       THEN UNCHANGED <<conns, handles>>
       ELSE LET conn == get_connection(conns) IN
            /\ conns' = conn
            /\ handles' = Append(handles,
                    IF kind = "List" THEN List_get(name, conn) ELSE Set_get(name, conn))
    /\ UNCHANGED <<db, lock, poisoned, tasks, watchers, published>>
    /\ UNCHANGED seqVars

\* --------------------------------------- operations as deferred computations
\* the methods of each kind of handle, one call for each shape of reply: the
\* closures differ in nothing else that the connection sees
ListCalls ==
    {[op |-> "push_front", arg |-> 1], [op |-> "pop_back", arg |-> 0],
     [op |-> "len", arg |-> 0], [op |-> "index", arg |-> 0],
     [op |-> "Key_remove", arg |-> 0]}
SetCalls == {[op |-> "Key_remove", arg |-> 0]}
\* the calls that write to the key of each kind
KeyCalls ==
    {[op |-> "push_front", arg |-> 1], [op |-> "set_index", arg |-> 2],
     [op |-> "trim", arg |-> 0], [op |-> "add", arg |-> 1],
     [op |-> "Key_remove", arg |-> 0]}
\* the methods a handle of each kind has
Methods(kind) ==
    IF kind = "List" THEN {"push_front", "push_back", "pop_front", "pop_back",
                           "index", "set_index", "trim", "len", "Key_remove"}
    ELSE {"add", "Key_remove"}

CallOf(op, s, arg) ==
    CASE op = "push_front" -> push_front_call(s, arg)
      [] op = "push_back" -> push_back_call(s, arg)
      [] op = "pop_front" -> pop_front_call(s)
      [] op = "pop_back" -> pop_back_call(s)
      [] op = "index" -> index_call(s, arg)
      [] op = "set_index" -> set_index_call(s, 0, arg)
      [] op = "trim" -> trim_call(s, 0, arg)
      [] op = "len" -> len_call(s)
      [] op = "add" -> add_call(s, arg)
      [] op = "Key_remove" -> Key_remove_call(s)

\* lazy(closure) as if it ran the closure at once
lazy_eager == "polled"

\* lazy(closure): a future that has not run its closure
lazy == "created"

\* calling a method clones the key and the connection into a lazy future;
\* Key::remove takes the handle by value
call(h, m) ==
    /\ h \in 1..Len(handles)
    /\ handles[h].alive
    /\ m.op \in Methods(handles[h].kind)
    /\ Len(tasks) < MaxTasks
    /\ tasks' = Append(tasks, [conn |-> handles[h].conn, key |-> handles[h].key,
                               kind |-> handles[h].kind, op |-> m.op, arg |-> m.arg, pc |-> lazy,
                               polled |-> FALSE, cmds |-> 0, res |-> OkUnit])
    /\ handles' = [handles EXCEPT ![h].alive = (m.op # "Key_remove")]
    /\ UNCHANGED <<db, conns, lock, poisoned, watchers, published>>
    /\ UNCHANGED seqVars

\* the future is dropped without having been polled
drop(t) ==
    /\ t \in 1..Len(tasks)
    /\ tasks[t].pc = "created"
    /\ tasks' = [tasks EXCEPT ![t].pc = "dropped"]
    /\ UNCHANGED <<db, conns, handles, lock, poisoned, watchers, published>>
    /\ UNCHANGED seqVars

\* the future is polled: the closure runs up to connection.write()
start(t) ==
    /\ t \in 1..Len(tasks)
    /\ tasks[t].pc = "created"
    /\ tasks' = [tasks EXCEPT ![t].pc = "polled", ![t].polled = TRUE]
    /\ UNCHANGED <<db, conns, handles, lock, poisoned, watchers, published>>
    /\ UNCHANGED seqVars

\* RwLock::write() as if it were granted beside another operation's guard
write_available_shared(c) == lock[c].who # "prod"

\* RwLock::write() returns once nobody holds the lock
write_available(c) == lock[c] = Free

\* connection.write().unwrap(): the guard, or a panic on a poisoned lock
acquire(t) ==
    /\ t \in 1..Len(tasks)
    /\ tasks[t].pc = "polled"
    /\ write_available(tasks[t].conn)
    /\ IF tasks[t].conn \in poisoned
       THEN /\ tasks' = [tasks EXCEPT ![t].pc = "panicked"]
            /\ UNCHANGED lock
       ELSE /\ tasks' = [tasks EXCEPT ![t].pc = "locked"]
            /\ lock' = [lock EXCEPT ![tasks[t].conn] = ByTask(t)]
    /\ UNCHANGED <<db, conns, handles, poisoned, watchers, published>>
    /\ UNCHANGED seqVars

\* query(): the command is written to the connection and the store runs it
send(t) ==
    /\ t \in 1..Len(tasks)
    /\ tasks[t].pc = "locked"
    /\ LET c == CallOf(tasks[t].op, store[tasks[t].key], tasks[t].arg) IN
       /\ store' = [store EXCEPT ![tasks[t].key] = c.s]
       /\ tasks' = [tasks EXCEPT ![t].pc = "sent", ![t].res = c.res, ![t].cmds = @ + 1]
    /\ UNCHANGED <<db, conns, handles, lock, poisoned, watchers, published>>
    /\ UNCHANGED <<pre, last, hist>>

\* query(): the reply is read and converted, the guard is dropped
recv(t) ==
    /\ t \in 1..Len(tasks)
    /\ tasks[t].pc = "sent"
    /\ tasks' = [tasks EXCEPT ![t].pc = "done"]
    /\ lock' = [lock EXCEPT ![tasks[t].conn] =
                    IF lock[tasks[t].conn] = ByTask(t) THEN Free ELSE @]
    /\ UNCHANGED <<db, conns, handles, poisoned, watchers, published>>
    /\ UNCHANGED seqVars

\* ------------------------------------------------------ notifications
\* a parse error: Error::InvalidNotification { type_name, notification }
InvalidNotification(type_name, s) ==
    [ok |-> FALSE, ev |-> "InvalidNotification", type_name |-> type_name, notification |-> s]
OkEvent(ev) == [ok |-> TRUE, ev |-> ev, type_name |-> "", notification |-> ""]

\* impl FromStr for SetEvent: there is no Set event, every payload is refused
SetEvent_from_str(s) == InvalidNotification("Set", s)

\* impl FromStr for ListEvent: every payload is the one List event
ListEvent_from_str(s) == OkEvent("TypeSpecific(E)")

\* WatchEvent::from_str as if "del" too were left to the kind's parser
WatchEvent_from_str_delegating(kind, s) ==
    IF kind = "Set" THEN SetEvent_from_str(s) ELSE ListEvent_from_str(s)

\* impl FromStr for WatchEvent<T>
WatchEvent_from_str(kind, s) ==
    IF s = "del" THEN OkEvent("Generic(Remove)")
    ELSE IF kind = "Set" THEN SetEvent_from_str(s) ELSE ListEvent_from_str(s)

\* the payloads of the keyspace events of a key of each kind
Payloads(kind) == IF kind = "List" THEN {"del", "rpush"} ELSE {"del", "sadd"}

\* -------------------------------------------------------------- Watcher
\* Key::watch / Watcher::watch: the channel, the wake handle, the producer
\* spawned with the handle's own connection; the Watcher is returned at once
watch(h) ==
    /\ h \in 1..Len(handles)
    /\ handles[h].alive
    /\ Len(watchers) < MaxWatch
    /\ watchers' = Append(watchers,
          [conn |-> handles[h].conn, key |-> handles[h].key, kind |-> handles[h].kind,
           ppc |-> "spawned", sub |-> <<>>, nrecv |-> 0, chan |-> <<>>,
           cpc |-> "ready", reg |-> FALSE, woken |-> FALSE, yielded |-> <<>>])
    /\ UNCHANGED <<db, conns, handles, lock, poisoned, tasks, published>>
    /\ UNCHANGED seqVars

\* the producer runs: conn.write().unwrap().  It keeps the write guard for
\* as long as it lives.  On a poisoned lock the unwrap panics with no guard
\* taken, and all the unwinding does is to drop the sender.
prod_start(w) ==
    /\ w \in 1..Len(watchers)
    /\ watchers[w].ppc = "spawned"
    /\ write_available(watchers[w].conn)
    /\ IF watchers[w].conn \in poisoned
       THEN /\ watchers' = [watchers EXCEPT ![w].ppc = "dead"]
            /\ UNCHANGED lock
       ELSE /\ watchers' = [watchers EXCEPT ![w].ppc = "subscribing"]
            /\ lock' = [lock EXCEPT ![watchers[w].conn] = ByProducer(w)]
    /\ UNCHANGED <<db, conns, handles, poisoned, tasks, published>>
    /\ UNCHANGED seqVars

\* as_pubsub(), subscribe(..).unwrap() returns: from here on the store
\* sends the producer the events of its key
prod_subscribe(w) ==
    /\ w \in 1..Len(watchers)
    /\ watchers[w].ppc = "subscribing"
    /\ watchers' = [watchers EXCEPT ![w].ppc = "listening"]
    /\ UNCHANGED <<db, conns, handles, lock, poisoned, tasks, published>>
    /\ UNCHANGED seqVars

\* the store publishes a keyspace event of key k to every subscription on it
publish(k, p) ==
    /\ published < MaxNotes
    /\ \E w \in 1..Len(watchers) : watchers[w].key = k /\ p \in Payloads(watchers[w].kind)
    /\ published' = published + 1
    /\ watchers' = [w \in 1..Len(watchers) |->
                      IF watchers[w].key = k /\ watchers[w].ppc \in {"listening", "notify"}
                      THEN [watchers[w] EXCEPT !.sub = Append(@, p)]
                      ELSE watchers[w]]
    /\ UNCHANGED <<db, conns, handles, lock, poisoned, tasks>>
    /\ UNCHANGED seqVars

\* sender.send(event) as if the channel were a stack
channel_push_front(chan, item) == <<item>> \o chan

\* sender.send(event): the unbounded channel keeps the order of the sends
channel_push(chan, item) == Append(chan, item)

\* the producer panics and unwinds: its PubSub is dropped, then its guard,
\* which poisons the lock and frees it.  The sender, captured by the closure,
\* is still to be dropped.
ProducerPanics(w) ==
    /\ watchers' = [watchers EXCEPT ![w].ppc = "unwinding", ![w].sub = <<>>]
    /\ lock' = [lock EXCEPT ![watchers[w].conn] = Free]
    /\ poisoned' = poisoned \cup {watchers[w].conn}

\* one turn of the loop up to the send: get_message(), get_payload(),
\* parse, sender.send(event).unwrap().  seq numbers the receipts.
prod_get_message(w) ==
    /\ w \in 1..Len(watchers)
    /\ watchers[w].ppc = "listening"
    /\ watchers[w].sub # <<>>
    /\ IF watchers[w].cpc = "dropped"
       THEN ProducerPanics(w)
       ELSE /\ watchers' = [watchers EXCEPT
                  ![w].ppc = "notify",
                  ![w].sub = Tail(@),
                  ![w].nrecv = @ + 1,
                  ![w].chan = channel_push(@,
                      [item |-> WatchEvent_from_str(watchers[w].kind, Head(watchers[w].sub)),
                       payload |-> Head(watchers[w].sub),
                       seq |-> watchers[w].nrecv + 1])]
            /\ UNCHANGED <<lock, poisoned>>
    /\ UNCHANGED <<db, conns, handles, tasks, published>>
    /\ UNCHANGED seqVars

\* task_cloned.notify(): wakes the task registered on the wake handle, if any
prod_notify(w) ==
    /\ w \in 1..Len(watchers)
    /\ watchers[w].ppc = "notify"
    /\ watchers' = [watchers EXCEPT
          ![w].ppc = "listening",
          ![w].woken = (@ \/ watchers[w].reg),
          ![w].reg = FALSE]
    /\ UNCHANGED <<db, conns, handles, lock, poisoned, tasks, published>>
    /\ UNCHANGED seqVars

\* subscribe(..).unwrap() or get_message().unwrap() on a failed connection
prod_fail(w) ==
    /\ w \in 1..Len(watchers)
    /\ watchers[w].ppc \in {"subscribing", "listening"}
    /\ ProducerPanics(w)
    /\ UNCHANGED <<db, conns, handles, tasks, published>>
    /\ UNCHANGED seqVars

\* the end of the unwinding: the closure's captured sender is dropped, which
\* disconnects the channel and notifies no one
prod_drop_sender(w) ==
    /\ w \in 1..Len(watchers)
    /\ watchers[w].ppc = "unwinding"
    /\ watchers' = [watchers EXCEPT ![w].ppc = "dead"]
    /\ UNCHANGED <<db, conns, handles, lock, poisoned, tasks, published>>
    /\ UNCHANGED seqVars

\* the consumer's state after poll took item off the channel, as if an error
\* item ended the stream
after_item_fused(item) == IF item.ok THEN "ready" ELSE "ended"

\* the consumer's state after poll took item off the channel: Ready(event)
\* or Err(err), and the stream can be polled again
after_item(item) == "ready"

\* Stream::poll, first half: receiver.try_recv().  The consumer is polled
\* when it is ready to be, or suspended and woken.
poll_try_recv(w) ==
    /\ w \in 1..Len(watchers)
    /\ \/ watchers[w].cpc = "ready"
       \/ watchers[w].cpc = "suspended" /\ watchers[w].woken
    /\ IF watchers[w].chan # <<>>
       THEN watchers' = [watchers EXCEPT
                ![w].chan = Tail(@),
                ![w].yielded = Append(@, Head(watchers[w].chan)),
                ![w].cpc = after_item(Head(watchers[w].chan).item),
                ![w].woken = FALSE]
       ELSE IF watchers[w].ppc = "dead"
       THEN watchers' = [watchers EXCEPT ![w].cpc = "panicked", ![w].woken = FALSE]
       ELSE watchers' = [watchers EXCEPT ![w].cpc = "empty", ![w].woken = FALSE]
    /\ UNCHANGED <<db, conns, handles, lock, poisoned, tasks, published>>
    /\ UNCHANGED seqVars

\* Stream::poll, second half on an empty channel: task.register(), NotReady
poll_register(w) ==
    /\ w \in 1..Len(watchers)
    /\ watchers[w].cpc = "empty"
    /\ watchers' = [watchers EXCEPT ![w].cpc = "suspended", ![w].reg = TRUE]
    /\ UNCHANGED <<db, conns, handles, lock, poisoned, tasks, published>>
    /\ UNCHANGED seqVars

\* the Watcher is dropped, and its receiver with it
drop_watcher(w) ==
    /\ w \in 1..Len(watchers)
    /\ watchers[w].cpc \in {"ready", "suspended"}
    /\ watchers' = [watchers EXCEPT ![w].cpc = "dropped", ![w].chan = <<>>,
                                     ![w].yielded = <<>>, ![w].reg = FALSE, ![w].woken = FALSE]
    /\ UNCHANGED <<db, conns, handles, lock, poisoned, tasks, published>>
    /\ UNCHANGED seqVars

Kinds == {"List", "Set"}
TaskIds == 1..MaxTasks
WatcherIds == 1..MaxWatch
HandleIds == 1..MaxHandles

\* The Database, its handles, their operations and the producers' locks, with
\* at most MaxActive futures and producers in all.
NextConn ==
    \/ \E a \in Addrs : new(a)
    \/ \E kind \in Kinds, n \in Names : get(kind, n)
    \/ \E h \in HandleIds, m \in ListCalls \cup SetCalls :
          Len(tasks) + Len(watchers) < MaxActive /\ call(h, m)
    \/ \E t \in TaskIds : drop(t)
    \/ \E t \in TaskIds : start(t)
    \/ \E t \in TaskIds : acquire(t)
    \/ \E t \in TaskIds : send(t)
    \/ \E t \in TaskIds : recv(t)
    \/ \E h \in HandleIds : Len(tasks) + Len(watchers) < MaxActive /\ watch(h)
    \/ \E w \in WatcherIds : prod_start(w)
    \/ \E w \in WatcherIds : prod_subscribe(w)
    \/ \E w \in WatcherIds : prod_fail(w)
    \/ \E w \in WatcherIds : prod_drop_sender(w)

SpecConn == Init /\ [][NextConn]_vars

\* A started operation runs on: a thread that can take the lock, send or
\* read does so; a spawned producer that can take the lock does so.
FairConn ==
    /\ SpecConn
    /\ \A t \in TaskIds : WF_vars(acquire(t)) /\ WF_vars(send(t)) /\ WF_vars(recv(t))
    /\ \A w \in WatcherIds : WF_vars(prod_start(w)) /\ WF_vars(prod_subscribe(w)) /\ WF_vars(prod_drop_sender(w))

\* The Database and handles of both kinds with the operations that write.
NextKeys ==
    \/ \E a \in Addrs : new(a)
    \/ \E kind \in Kinds, n \in Names : get(kind, n)
    \/ \E h \in HandleIds, m \in KeyCalls : call(h, m)
    \/ \E t \in TaskIds : start(t)
    \/ \E t \in TaskIds : acquire(t)
    \/ \E t \in TaskIds : send(t)
    \/ \E t \in TaskIds : recv(t)

SpecKeys == Init /\ [][NextKeys]_vars

\* The bridge of a Watcher: its producer, the notifications, its consumer,
\* the store staying available.
NextWatch ==
    \/ \E a \in Addrs : new(a)
    \/ \E kind \in Kinds, n \in Names : Len(handles) < MaxStreams /\ get(kind, n)
    \/ \E h \in HandleIds : Len(watchers) < MaxStreams /\ watch(h)
    \/ \E w \in WatcherIds : prod_start(w)
    \/ \E w \in WatcherIds : prod_subscribe(w)
    \/ \E k \in Keys, p \in Payloads("List") \cup Payloads("Set") : publish(k, p)
    \/ \E w \in WatcherIds : prod_get_message(w)
    \/ \E w \in WatcherIds : prod_notify(w)
    \/ \E w \in WatcherIds : poll_try_recv(w)
    \/ \E w \in WatcherIds : poll_register(w)
    \/ \E w \in WatcherIds : drop_watcher(w)
    \/ \E w \in WatcherIds : prod_drop_sender(w)

SpecWatch == Init /\ [][NextWatch]_vars

\* The same, and the store's connection can fail under a producer.
NextWatchFail ==
    \/ NextWatch
    \/ \E w \in WatcherIds : prod_fail(w)

SpecWatchFail == Init /\ [][NextWatchFail]_vars

\* The same, every producer running on its thread and every consumer polled
\* again whenever it is ready or woken.
FairWatchFail ==
    /\ SpecWatchFail
    /\ \A w \in WatcherIds :
          /\ WF_vars(prod_start(w))
          /\ WF_vars(prod_subscribe(w))
          /\ WF_vars(prod_get_message(w))
          /\ WF_vars(prod_notify(w))
          /\ WF_vars(prod_drop_sender(w))
          /\ WF_vars(poll_try_recv(w))
          /\ WF_vars(poll_register(w))

\* ------------------------------------------------------------------ claims
\* hist is n calls of push, then only calls of pop, no more pops than pushes
PushThenPop(push, pop, n) ==
    /\ n >= 1
    /\ Len(hist) <= 2 * n
    /\ \A j \in 1..Len(hist) :
          /\ hist[j].key = ListKey("people")
          /\ hist[j].op = (IF j <= n THEN push ELSE pop)

\* the j-th pop returned the j-th pushed value, and the list is empty again
\* (len() answers 0) once all n were popped
PopsReturnPushes(n) ==
    /\ \A j \in 1..(Len(hist) - n) : hist[n + j].res = OkSome(hist[j].arg)
    /\ Len(hist) = 2 * n => len_call(store[ListKey("people")]).res = OkInt(0)

\* C1: values pushed with push_back onto an empty List come back from
\* successive pop_front calls, in push order, each exactly as pushed; the same
\* for push_front with pop_back; len() is 0 once every value was popped.
C1_FifoOrder ==
    \A n \in 1..MaxHist :
        /\ PushThenPop("push_back", "pop_front", n) => PopsReturnPushes(n)
        /\ PushThenPop("push_front", "pop_back", n) => PopsReturnPushes(n)

\* C2: Key::remove completes with Ok whether or not the key exists (in
\* particular on a key that does not exist), and the key is gone afterwards.
C2_RemoveSucceeds ==
    last.op = "Key_remove" => last.res.ok /\ store[last.key] = NoKey

\* C10: on a List holding n >= 1 elements index(0) returns the first,
\* index(-1) the last, an index outside the list is an error, and the list is
\* left as it was.
C10_Index ==
    (last.op = "index" /\ Len(pre[last.key].list) >= 1) =>
        LET l == pre[last.key].list
            n == Len(l)
        IN  /\ last.arg = 0 => \E v \in Elems : to_vec(v) = l[1] /\ last.res = OkVal(v)
            /\ last.arg = -1 => \E v \in Elems : to_vec(v) = l[n] /\ last.res = OkVal(v)
            /\ (last.arg >= n \/ last.arg < 0 - n) => ~last.res.ok
            /\ store = pre

\* index(n) on a list of n >= 1 elements has just completed with an error
C10_Witness ==
    /\ last.op = "index"
    /\ Len(pre[last.key].list) >= 2
    /\ last.arg = Len(pre[last.key].list)
    /\ ~last.res.ok

\* C3: every operation that has been started (polled) on a handle eventually
\* completes with a value or an error, also while a Watcher obtained from the
\* same handle is active.
C3_OperationsComplete ==
    \A t \in TaskIds :
        (t <= Len(tasks) /\ tasks[t].pc = "polled") ~> (t <= Len(tasks) /\ tasks[t].pc = "done")

\* C4: every Watcher returned by watch(), also the second one of the same
\* handle, eventually has its own active subscription (without which no
\* notification of the key reaches it).
C4_EachWatcherSubscribes ==
    \A w \in WatcherIds :
        (w <= Len(watchers)) ~> (w <= Len(watchers) /\ watchers[w].ppc = "listening")

\* every item the producer of w pushed, in channel order: yielded, then queued
Items(w) == watchers[w].yielded \o watchers[w].chan

\* C5: for a List and for a Set the payload "del" is delivered as
\* Generic(Remove); for a Set every other payload is delivered as the error
\* InvalidNotification carrying "Set" and the payload; every payload the
\* producer received is an item of the channel or was yielded (none dropped).
C5_Decoding ==
    \A w \in 1..Len(watchers) :
        /\ \A i \in 1..Len(Items(w)) :
              LET it == Items(w)[i] IN
              /\ it.payload = "del" => it.item = OkEvent("Generic(Remove)")
              /\ (watchers[w].kind = "Set" /\ it.payload # "del") =>
                     /\ ~it.item.ok
                     /\ it.item.ev = "InvalidNotification"
                     /\ it.item.type_name = "Set"
                     /\ it.item.notification = it.payload
        /\ watchers[w].cpc # "dropped" => Len(Items(w)) = watchers[w].nrecv

\* a Set's Watcher has yielded the parse error of "sadd", and a "del" too
C5_Witness ==
    \E w \in 1..Len(watchers) :
        /\ watchers[w].kind = "Set"
        /\ \E i, j \in 1..Len(watchers[w].yielded) :
              /\ watchers[w].yielded[i].payload = "sadd"
              /\ ~watchers[w].yielded[i].item.ok
              /\ watchers[w].yielded[j].payload = "del"

\* C6: a poll that yields a parse error takes exactly that item off the
\* channel and leaves the stream ready to be polled again, the rest of the
\* channel untouched.
C6_ErrorKeepsStream ==
    [][\A w \in 1..Len(watchers) :
          (/\ Len(watchers'[w].yielded) = Len(watchers[w].yielded) + 1
           /\ ~watchers'[w].yielded[Len(watchers'[w].yielded)].item.ok)
          => /\ watchers'[w].cpc = "ready"
             /\ watchers[w].chan # <<>>
             /\ watchers'[w].yielded[Len(watchers'[w].yielded)] = Head(watchers[w].chan)
             /\ watchers'[w].chan = Tail(watchers[w].chan)]_vars

\* a Watcher has yielded a parse error and, by a later poll, the next item
C6_Witness ==
    \E w \in 1..Len(watchers) :
        /\ Len(watchers[w].yielded) >= 2
        /\ ~watchers[w].yielded[1].item.ok

\* C7: the items a Watcher has yielded, followed by those still in its
\* channel, are the notifications its producer received, each once, in the
\* order of receipt.
C7_DeliveryOrder ==
    \A w \in 1..Len(watchers) :
        watchers[w].cpc # "dropped" =>
            /\ Len(Items(w)) = watchers[w].nrecv
            /\ \A i \in 1..Len(Items(w)) : Items(w)[i].seq = i

\* a Watcher has yielded two different notifications, one after the other
C7_Witness ==
    \E w \in 1..Len(watchers) :
        /\ Len(watchers[w].yielded) = 2
        /\ watchers[w].yielded[1].payload # watchers[w].yielded[2].payload

\* the commands of connection c that are in flight: sent, reply not yet read
InFlight(c) == {t \in 1..Len(tasks) : tasks[t].conn = c /\ tasks[t].pc = "sent"}

\* C8: on one connection at most one command is in flight at any time, its
\* sender holds the connection's lock, and none is in flight while a
\* producer holds it.
C8_MutualExclusion ==
    \A c \in 1..conns :
        /\ Cardinality(InFlight(c)) <= 1
        /\ \A t \in InFlight(c) : lock[c] = ByTask(t)

\* one operation's command is in flight while another operation on the same
\* connection has been started and waits
C8_Witness ==
    \E t1, t2 \in 1..Len(tasks) :
        /\ tasks[t1].conn = tasks[t2].conn
        /\ tasks[t1].pc = "sent"
        /\ tasks[t2].pc = "polled"

\* C9: all handles got from the Database use one and the same connection, and
\* no second connection is ever opened.
C9_OneConnection ==
    /\ conns <= 1
    /\ \A h1, h2 \in 1..Len(handles) : handles[h1].conn = handles[h2].conn

\* C9 as amended: every get call opens a connection of its own, so the
\* handles of n get calls hold n distinct connections.
C9_ConnectionPerGet ==
    /\ conns = Len(handles)
    /\ \A h1, h2 \in 1..Len(handles) : h1 # h2 => handles[h1].conn # handles[h2].conn

\* two get calls have returned their handles
C9_Witness == Len(handles) = 2 /\ db = "ready"

\* C11: insert_before / insert_after answer true exactly when the value was
\* put next to the first occurrence of the pivot; when the pivot is not in the
\* list (an empty or nonexistent list too) they answer false and the list is
\* as it was.
C11_InsertReports ==
    last.op \in {"insert_before", "insert_after"} =>
        LET l == pre[last.key].list
            i == FirstIndex(l, to_vec(last.arg[1]))
            p == IF last.op = "insert_before" THEN i ELSE i + 1
        IN  IF i # 0
            THEN /\ last.res = OkBool(TRUE)
                 /\ store[last.key].list = InsertAt(l, p, to_vec(last.arg[2]))
            ELSE /\ last.res = OkBool(FALSE)
                 /\ store = pre

\* C12: on a non-empty List pop_front takes the last element off and
\* pop_back the first, and each returns the element it took; on an empty or
\* nonexistent List they return the empty result, not an error, and the list
\* stays empty; the empty result is returned only when the list was empty.
C12_PopReturnsElement ==
    last.op \in {"pop_front", "pop_back"} =>
        LET l == pre[last.key].list
            n == Len(l)
        IN  /\ l = <<>> => last.res = OkNone /\ store[last.key].list = <<>>
            /\ (l # <<>> /\ last.op = "pop_front") =>
                   /\ store[last.key].list = SubSeq(l, 1, n - 1)
                   /\ \E v \in Elems : to_vec(v) = l[n] /\ last.res = OkSome(v)
            /\ (l # <<>> /\ last.op = "pop_back") =>
                   /\ store[last.key].list = Tail(l)
                   /\ \E v \in Elems : to_vec(v) = l[1] /\ last.res = OkSome(v)
            /\ last.res = OkNone => l = <<>>

\* the members a Set holds after the add and remove calls of h
RECURSIVE Members(_)
Members(h) ==
    IF h = <<>> THEN {}
    ELSE LET e == h[Len(h)]
             before == Members(SubSeq(h, 1, Len(h) - 1)) IN
         IF e.op = "add" THEN before \cup {e.arg} ELSE before \ {e.arg}

\* the members the Set held before its last add or remove call
MembersBefore == Members(SubSeq(hist, 1, Len(hist) - 1))

\* C13: add(x) answers true exactly when x was not a member; after any
\* sequence of add and remove calls count() is the number of distinct
\* members (0 for a set that does not exist) and to_vec() holds each member
\* exactly once.
C13_SetUniqueness ==
    /\ last.op = "add" => last.res = OkBool(last.arg \notin MembersBefore)
    /\ last.op = "count" => last.res = OkInt(Cardinality(Members(hist)))
    /\ last.op = "Set_to_vec" =>
          /\ last.res.ok
          /\ Len(last.res.vec) = Cardinality(Members(hist))
          /\ {last.res.vec[i] : i \in 1..Len(last.res.vec)} = Members(hist)

\* to_vec has answered two members after an add of one of them was repeated
C13_Witness ==
    /\ last.op = "Set_to_vec"
    /\ Len(last.res.vec) = 2
    /\ \E i, j \in 1..Len(hist) :
          /\ i < j
          /\ hist[i].op = "add" /\ hist[j].op = "add"
          /\ hist[i].arg = hist[j].arg
          /\ hist[j].res = OkBool(FALSE)

\* C14: contains(x) is false before add(x), true after it and false again
\* after remove(x); remove(x) answers true exactly when x was a member, and x
\* is no member afterwards; contains leaves the set as it was.
C14_SetMembership ==
    /\ last.op = "contains" =>
          /\ last.res = OkBool(last.arg \in Members(hist))
          /\ store = pre
    /\ last.op = "Set_remove" =>
          /\ last.res = OkBool(last.arg \in MembersBefore)
          /\ to_vec(last.arg) \notin store[last.key].set

\* contains(x) has answered false after add(x) and remove(x)
C14_Witness ==
    /\ last.op = "contains"
    /\ last.res = OkBool(FALSE)
    /\ Len(hist) = 2
    /\ hist[1].op = "add" /\ hist[1].arg = last.arg
    /\ hist[2].op = "Set_remove" /\ hist[2].arg = last.arg /\ hist[2].res = OkBool(TRUE)

\* C15: no collection operation panics, also after the producer of a Watcher
\* of the same handle has failed; an operation that fails completes with an
\* Err of the typed Error.
C15_NoOperationPanics ==
    \A t \in 1..Len(tasks) :
        /\ tasks[t].pc # "panicked"
        /\ (tasks[t].pc = "done" /\ ~tasks[t].res.ok) =>
               tasks[t].res.tag \in {"RedisError", "SerializationError"}

\* C16: range(start, stop) returns, in list order, the elements at the
\* positions from start to stop, stop included, positions below zero counted
\* from the end (so range(0, 1) on two or more elements returns two of them);
\* it returns the empty sequence when no position of the list is in the
\* range, and it leaves the list as it was.
C16_RangeInclusive ==
    last.op = "range" =>
        LET l == pre[last.key].list
            n == Len(l)
            from == IF last.arg[1] < 0 THEN n + last.arg[1] ELSE last.arg[1]
            upto == IF last.arg[2] < 0 THEN n + last.arg[2] ELSE last.arg[2]
            hit == {i \in 1..n : from <= i - 1 /\ i - 1 <= upto}
        IN  /\ last.res.ok
            /\ Len(last.res.vec) = Cardinality(hit)
            /\ \A j \in 1..Len(last.res.vec) :
                   LET first == CHOOSE i \in hit : \A i2 \in hit : i <= i2 IN
                   to_vec(last.res.vec[j]) = l[first + j - 1]
            /\ store = pre

\* range(0, 1) on a list of three elements has answered two
C16_Witness ==
    /\ last.op = "range"
    /\ last.arg = <<0, 1>>
    /\ Len(pre[last.key].list) = 3
    /\ Len(last.res.vec) = 2

\* C17: remove(count, item) takes elements equal to item off the list and
\* answers how many: at most count of them from the head on when count > 0,
\* at most -count of them from the tail on when count < 0, all of them when
\* count = 0; the other elements keep their order.
C17_RemoveCount ==
    last.op = "List_remove" =>
        LET l == pre[last.key].list
            l2 == store[last.key].list
            n == Len(l)
            cnt == last.arg[1]
            data == to_vec(last.arg[2])
            Other(x) == x # data
            Occ(a, b) == Cardinality({i \in a..b : l[i] = data})
            most == IF cnt = 0 THEN n ELSE IF cnt > 0 THEN cnt ELSE 0 - cnt
            k == IF Occ(1, n) < most THEN Occ(1, n) ELSE most
        IN  /\ last.res = OkInt(k)
            /\ SelectSeq(l2, Other) = SelectSeq(l, Other)
            /\ cnt >= 0 => \E p \in 0..n :
                   /\ Occ(1, p) = k
                   /\ l2 = SelectSeq(SubSeq(l, 1, p), Other) \o SubSeq(l, p + 1, n)
            /\ cnt < 0 => \E p \in 0..n :
                   /\ Occ(p + 1, n) = k
                   /\ l2 = SubSeq(l, 1, p) \o SelectSeq(SubSeq(l, p + 1, n), Other)

\* C18: a call only builds a deferred computation.  No command of it reaches
\* the store before it is polled, it issues one command and no more, it has
\* issued exactly one when it completes, and one dropped before being polled
\* issues none; the store changes only by the command of a polled computation.
C18_Deferred ==
    [][/\ \A t \in 1..Len(tasks') :
             /\ ~tasks'[t].polled => tasks'[t].cmds = 0
             /\ tasks'[t].cmds <= 1
             /\ tasks'[t].pc = "done" => tasks'[t].cmds = 1
             /\ tasks'[t].pc = "dropped" => tasks'[t].cmds = 0
       /\ store' # store =>
             \E t \in 1..Len(tasks) :
                 /\ tasks[t].polled
                 /\ tasks'[t].cmds = tasks[t].cmds + 1]_vars

\* one computation was dropped before being polled, another was polled and
\* has completed with its one command
C18_Witness ==
    \E t1, t2 \in 1..Len(tasks) :
        /\ tasks[t1].pc = "dropped" /\ tasks[t1].cmds = 0
        /\ tasks[t2].pc = "done" /\ tasks[t2].cmds = 1

\* C19: Database::new opens no connection.  It succeeds on every well-formed
\* address, whether a store listens there or not, and fails on a malformed
\* one; a connection is opened only by a get call, so none is open before
\* the first one.
C19_NewOpensNothing ==
    [][/\ \A a \in Addrs :
             new(a) => (db' # "invalid" <=> (a.scheme = "redis" /\ a.host # ""))
       /\ db' # db => conns' = 0 /\ handles' = <<>>
       /\ conns' # conns => db = "ready" /\ Len(handles') = Len(handles) + 1
       /\ handles' = <<>> => conns' = 0]_vars

\* new has succeeded on an address no store listens on, no connection open
C19_Witness == db = "offline" /\ conns = 0

\* C20: in no reachable state does a Watcher's channel hold an event while
\* its consumer is suspended with no wake pending, that is, neither woken nor
\* about to be notified by its producer.
C20_NoLostWake ==
    \A w \in 1..Len(watchers) :
        ~(/\ watchers[w].chan # <<>>
          /\ watchers[w].cpc = "suspended"
          /\ ~watchers[w].woken
          /\ watchers[w].ppc # "notify")

\* C21: while no blocking read of its subscription fails, a producer that
\* has subscribed never stops, also after its Watcher was dropped: it goes on
\* receiving the notifications of its key.
C21_ProducerOutlivesWatcher ==
    [][\A w \in 1..Len(watchers) :
          watchers[w].ppc \in {"listening", "notify"} =>
              watchers'[w].ppc \in {"listening", "notify"}]_vars

\* C22: once the producer of a Watcher that is still held has terminated,
\* the consumer eventually reaches the fatal disconnection; it never stays
\* suspended for ever.
C22_FailsLoudly ==
    \A w \in WatcherIds :
        (w <= Len(watchers) /\ watchers[w].ppc = "dead" /\ watchers[w].cpc # "dropped")
            ~> (w <= Len(watchers) /\ watchers[w].cpc \in {"panicked", "dropped"})

\* C23: the key of a handle is the prefix of its kind followed by the name,
\* and stays what it is while the handle lives; handles of different kinds
\* hold different keys, and the command of an operation of a handle of one
\* kind leaves the stored value of every handle of the other kind as it was.
C23_KeysApart ==
    [][/\ \A h \in 1..Len(handles') :
             /\ \E n \in Names :
                   handles'[h].key =
                       (IF handles'[h].kind = "List" THEN "_orm_list:" ELSE "_orm_set:") \o n
             /\ h <= Len(handles) => handles'[h].key = handles[h].key
       /\ \A h1, h2 \in 1..Len(handles') :
             handles'[h1].kind # handles'[h2].kind => handles'[h1].key # handles'[h2].key
       /\ \A t \in 1..Len(tasks) :
             tasks'[t].cmds # tasks[t].cmds =>
                 \A h \in 1..Len(handles) :
                     handles[h].kind # tasks[t].kind =>
                         store'[handles[h].key] = store[handles[h].key]]_vars

\* a List and a Set of the same name both hold data, and an operation of the
\* List handle has just issued its command
C23_Witness ==
    /\ store[ListKey("people")].list # <<>>
    /\ store[SetKey("people")].set # {}
    /\ \E t \in 1..Len(tasks) : tasks[t].kind = "List" /\ tasks[t].pc = "sent"

====
